---------------------------- MODULE Spec2Model ----------------------------
(***************************************************************************)
(* A model of the ingestion pipeline of src/data_pipeline.py: the fetcher  *)
(* with bounded retry, the schema validator, the quality filter, the       *)
(* idempotency guard, the store writer and the orchestrator run_pipeline.  *)
(*                                                                         *)
(* Conventions of the model                                                *)
(*  - A JSON value is a tagged tuple: NA (null / NaN / absent cell),       *)
(*    Num(n), Str(s) with s a sequence of one-character strings, and       *)
(*    Obj(f) with f a function from keys to JSON values.                   *)
(*  - Decimal numbers are kept in tenths (a rating of 4.5 is 45, the upper *)
(*    limit 5 is 50); only their order matters to the code.                *)
(*  - A calendar date is a day number.                                     *)
(***************************************************************************)
EXTENDS Integers, Sequences, FiniteSets, TLC

(***************************************************************************)
(* Bounds of the model.                                                    *)
(***************************************************************************)
MaxLen == 3        \* longest batch given to validate_schema / clean_and_validate_data
MaxAttempts == 3   \* largest max_retries fetch_data_from_api is called with directly
MaxRuns == 2       \* invocations of run_pipeline
MaxDay == 2        \* calendar days the clock can show

(***************************************************************************)
(* Configuration (src/data_pipeline.py, lines 20-31).                      *)
(***************************************************************************)
MAX_RETRIES == 3
MIN_EXPECTED_RECORDS == 10
REQUIRED_FIELDS == {"id", "title", "category", "price", "rating.rate", "rating.count"}

(***************************************************************************)
(* JSON values.                                                            *)
(***************************************************************************)
NA == <<"na">>
Num(n) == <<"num", n>>
Str(s) == <<"str", s>>
Obj(f) == <<"obj", f>>

IsDict(v) == v[1] = "obj"

\* datetime.now().strftime("%Y-%m-%d"): the day as text.
strftime(day) == <<"str", ToString(day)>>
isna(v) == v = NA

\* pandas comparisons: a comparison with a missing value is False.
lt(v, n) == v[1] = "num" /\ v[2] < n
le(v, n) == v[1] = "num" /\ v[2] <= n
gt(v, n) == v[1] = "num" /\ v[2] > n

Whitespace == {" ", "\t"}

RECURSIVE lstrip(_)
lstrip(s) ==
    IF s # <<>> /\ Head(s) \in Whitespace THEN lstrip(Tail(s)) ELSE s

RECURSIVE rstrip(_)
rstrip(s) ==
    IF s # <<>> /\ s[Len(s)] \in Whitespace
    THEN rstrip(SubSeq(s, 1, Len(s) - 1))
    ELSE s

\* str.strip(): leading and trailing whitespace removed.
strip(s) == rstrip(lstrip(s))

\* Series.str.strip() == '': False on a missing value.
str_strip_is_empty(v) == v[1] = "str" /\ strip(v[2]) = <<>>

(***************************************************************************)
(* pd.json_normalize: nested objects are flattened to dotted column names; *)
(* the frame's columns are the union over the records, a cell a record     *)
(* does not give is missing.                                               *)
(***************************************************************************)
RECURSIVE nested_to_record(_, _)
nested_to_record(d, prefix) ==
    UNION { IF IsDict(d[k])
            THEN nested_to_record(d[k][2], prefix \o k \o ".")
            ELSE { <<prefix \o k, d[k]>> } : k \in DOMAIN d }

json_normalize(data) ==
    LET flat == [i \in 1..Len(data) |-> nested_to_record(data[i], "")]
        cols == UNION { { c[1] : c \in flat[i] } : i \in 1..Len(data) }
        cell(i, c) == IF \E x \in flat[i] : x[1] = c
                      THEN (CHOOSE x \in flat[i] : x[1] = c)[2]
                      ELSE NA
    IN  [columns |-> cols,
         rows |-> [i \in 1..Len(data) |-> [c \in cols |-> cell(i, c)]]]

\* Fault variant of validate_schema: the whole batch is flattened, not its
\* first record.
validate_schema_all_records(data, required_fields) ==
    data # <<>> /\ required_fields \subseteq json_normalize(data).columns

\* accepts a batch when any one record gives every required field
validate_schema_any_record(data, required_fields) ==
    \E i \in 1..Len(data) :
        required_fields \subseteq json_normalize(SubSeq(data, i, i)).columns

\* Fault variant of validate_schema: every batch is accepted.
validate_schema_accepts_all(data, required_fields) == TRUE

(***************************************************************************)
(* validate_schema (lines 84-104).                                         *)
(***************************************************************************)
validate_schema(data, required_fields) ==
    IF data = <<>>
    THEN FALSE
    ELSE LET sample_df == json_normalize(SubSeq(data, 1, 1))
             actual_fields == sample_df.columns
             missing_fields == required_fields \ actual_fields
         IN  missing_fields = {}

(***************************************************************************)
(* clean_and_validate_data (lines 110-169).  A frame is the sequence of    *)
(* its rows; a mask is a function from row positions to BOOLEAN.           *)
(***************************************************************************)
mask_sum(mask) == Cardinality({ i \in DOMAIN mask : mask[i] })

\* Fault variant of drop_masked: the frame is not narrowed.
drop_masked_nothing(df, mask) == df

\* df[~mask]: the rows the mask does not mark, in order.
drop_masked(df, mask) ==
    LET F[i \in 0..Len(df)] ==
            IF i = 0 THEN <<>>
            ELSE IF mask[i] THEN F[i - 1] ELSE Append(F[i - 1], df[i])
    IN  F[Len(df)]

\* Fault variant of invalid_price_mask: a price of 0 is accepted.
invalid_price_mask_strict(df) ==
    [i \in 1..Len(df) |-> lt(df[i]["price"], 0) \/ isna(df[i]["price"])]

invalid_price_mask(df) ==
    [i \in 1..Len(df) |-> le(df[i]["price"], 0) \/ isna(df[i]["price"])]

invalid_category_mask(df) ==
    [i \in 1..Len(df) |->
        isna(df[i]["category"]) \/ str_strip_is_empty(df[i]["category"])]

\* Fault variant of invalid_rating_mask: a rating of 5 is rejected.
invalid_rating_mask_open(df) ==
    [i \in 1..Len(df) |->
        \/ lt(df[i]["rating.rate"], 0)
        \/ gt(df[i]["rating.rate"], 49)
        \/ isna(df[i]["rating.rate"])]

invalid_rating_mask(df) ==
    [i \in 1..Len(df) |->
        \/ lt(df[i]["rating.rate"], 0)
        \/ gt(df[i]["rating.rate"], 50)
        \/ isna(df[i]["rating.rate"])]

\* Fault variant of duplicated: keep=False, every member of a group is marked.
duplicated_keep_none(df) ==
    [i \in 1..Len(df) |->
        \E j \in 1..Len(df) : j # i /\ df[j]["id"] = df[i]["id"]]

\* df.duplicated(subset=['id'], keep='first')
duplicated(df) ==
    [i \in 1..Len(df) |-> \E j \in 1..(i - 1) : df[j]["id"] = df[i]["id"]]

NoMetrics == [raw_records |-> 0, invalid_price |-> 0, invalid_category |-> 0,
              invalid_rating |-> 0, duplicates_removed |-> 0, clean_records |-> 0]

Raised(name) == [raised |-> name, df |-> <<>>, metrics |-> NoMetrics]

\* Series <op> number on a column that holds text: pandas compares cell by
\* cell, a missing cell gives False, a str cell makes Python raise
\* TypeError ('<=' not supported between instances of 'str' and 'int').
compare_raises(df, column) == \E i \in 1..Len(df) : df[i][column][1] = "str"

\* Series.str on a column that is not of object dtype: a column whose
\* cells are numbers, or numbers and missing values, is int64 / float64 and
\* the accessor raises AttributeError; with a str cell, or with nothing but
\* null cells, the column is of object dtype and the accessor works.
\* Selecting rows keeps the dtype, so the column is looked at as
\* json_normalize built it.
str_accessor_raises(df, column) ==
    /\ \E i \in 1..Len(df) : df[i][column][1] = "num"
    /\ \A i \in 1..Len(df) : df[i][column][1] # "str"

\* The result of the call: raised is "none" when it returns (df, metrics),
\* and otherwise the name of the exception: KeyError when
\* df[REQUIRED_FIELDS] finds a column missing (line 124), TypeError when a
\* price or a rating compared with a number is text (lines 138, 148),
\* AttributeError when the category column has no .str accessor (line 143).
clean_and_validate_data(data, now) ==
    LET norm == json_normalize(data)
    IN  IF ~(REQUIRED_FIELDS \subseteq norm.columns)
        THEN Raised("KeyError")
        ELSE
        LET df0 == [i \in 1..Len(data) |->
                      [c \in REQUIRED_FIELDS \cup {"fetch_date"} |->
                          IF c = "fetch_date" THEN strftime(now) ELSE norm.rows[i][c]]]
            original_count == Len(df0)
            m1 == invalid_price_mask(df0)
            df1 == drop_masked(df0, m1)
            m2 == invalid_category_mask(df1)
            df2 == drop_masked(df1, m2)
            m3 == invalid_rating_mask(df2)
            df3 == drop_masked(df2, m3)
            m4 == duplicated(df3)
            df4 == drop_masked(df3, m4)
        IN  IF compare_raises(df0, "price") THEN Raised("TypeError")
            ELSE IF str_accessor_raises(df0, "category") THEN Raised("AttributeError")
            ELSE IF compare_raises(df2, "rating.rate") THEN Raised("TypeError")
            ELSE
            [raised |-> "none",
             df |-> df4,
             metrics |-> [raw_records |-> original_count,
                          invalid_price |-> mask_sum(m1),
                          invalid_category |-> mask_sum(m2),
                          invalid_rating |-> mask_sum(m3),
                          duplicates_removed |-> mask_sum(m4),
                          clean_records |-> Len(df4)]]


(***************************************************************************)
(* Inputs: the records and batches the model draws from.                   *)
(***************************************************************************)
Product(i, p, c, r) ==
    [id |-> Num(i), title |-> Str(<<"t">>), category |-> c, price |-> p,
     rating |-> Obj([rate |-> r, count |-> Num(3)])]

\* A record without key k.
Without(rec, k) == [x \in (DOMAIN rec) \ {k} |-> rec[x]]

Base1 == Product(1, Num(10), Str(<<"a">>), Num(45))
Base2 == Product(2, Num(10), Str(<<"b">>), Num(20))

\* Records for the quality filter: every rule's accepted and rejected
\* values, boundary values included, and records several rules reject.
CleanRecords ==
    { Base1, Base2,
      Product(1, Num(10), Str(<<" ", "a", " ">>), Num(0)),
      Product(1, Num(10), Str(<<"a">>), Num(50)),
      Without(Base1, "price"),
      Product(1, Num(0), Str(<<"a">>), Num(45)),
      Product(2, Num(-5), Str(<<"b">>), Num(20)),
      Product(1, Num(10), NA, Num(45)),
      Product(1, Num(10), Str(<<>>), Num(45)),
      Product(2, Num(10), Str(<<"\t", " ">>), Num(20)),
      Product(1, Num(10), Str(<<"a">>), NA),
      Product(1, Num(10), Str(<<"a">>), Num(-1)),
      Product(2, Num(10), Str(<<"b">>), Num(51)),
      Product(1, NA, Str(<<" ">>), Num(51)) }

\* Records for the schema validator: the required fields present or absent
\* at the top level and inside the nested rating object.
ValidateRecords ==
    { Base1, Base2,
      Without(Base1, "id"), Without(Base1, "title"), Without(Base1, "category"),
      Without(Base1, "price"), Without(Base1, "rating"),
      [Base1 EXCEPT !["rating"] = Obj([count |-> Num(3)])],
      [Base1 EXCEPT !["rating"] = Obj([rate |-> Num(45)])],
      [Base1 EXCEPT !["rating"] = NA],
      [Base1 EXCEPT !["rating"] = Num(45)],
      [Base1 EXCEPT !["price"] = NA],
      [x \in (DOMAIN Base1) \cup {"image"} |->
          IF x = "image" THEN Str(<<"u">>) ELSE Base1[x]] }

\* Records for the stages in sequence: records the validator accepts as a
\* first record and whose values the filter then meets, values of another
\* JSON type than the field's included (the validator looks at the
\* presence of fields, not at the type of their values).
StageRecords ==
    { Base1, Base2,
      Product(1, Str(<<"1", "2">>), Str(<<"a">>), Num(45)),
      Product(2, Num(10), Num(7), Num(20)),
      Product(2, Num(10), Str(<<"b">>), Str(<<"4">>)),
      Without(Base1, "price"),
      Product(1, Num(-5), Str(<<"a">>), Num(45)),
      Product(1, Num(10), NA, Num(45)),
      Product(2, Num(10), Str(<<"b">>), Num(51)),
      Without(Base2, "rating"),
      [Base1 EXCEPT !["rating"] = Num(45)] }

RECURSIVE BatchesOf(_, _)
BatchesOf(S, n) ==
    IF n = 0 THEN { <<>> }
    ELSE LET shorter == BatchesOf(S, n - 1)
         IN  shorter \cup { Append(b, r) : b \in { x \in shorter : Len(x) = n - 1 }, r \in S }

\* The payloads the remote source answers a pipeline run with.
ExampleBatch == << Base1, Base1, Product(2, Num(-5), Str(<<"b">>), Num(20)) >>

Payloads ==
    { <<>>,
      << Without(Base1, "price"), Base2 >>,
      << Base1, Base2 >>,
      ExampleBatch,
      << Product(1, Num(-5), Str(<<"a">>), Num(45)) >>,
      << Product(1, Str(<<"1", "2">>), Str(<<"a">>), Num(45)) >> }

(***************************************************************************)
(* State.                                                                  *)
(***************************************************************************)
Procs == {"p1", "p2"}    \* invocations a scheduler can have in flight

VARIABLES
    today,                       \* the date datetime.now() shows
    jsonErrorIsRequestException, \* the installed requests library: whether the
                                 \* error Response.json() raises derives from
                                 \* RequestException (requests >= 2.27) or only
                                 \* from ValueError (older releases)
    table_exists,                \* the store: whether daily_sales exists
    table_rows,                  \* the store: the rows of daily_sales, in insertion order
    runs,                        \* invocations of run_pipeline started so far
    calls,                       \* history: the calls of store_data that ended
    pc,                          \* each invocation's position
    max_retries,                 \* fetch_data_from_api's parameter
    attempt,                     \* fetch_data_from_api's loop variable
    requests,                    \* history: requests.get calls of the current fetch
    sleeps,                      \* history: time.sleep calls of the current fetch
    responses,                   \* history: what each request of the current fetch met
    raw_data,                    \* run_pipeline's raw_data
    exc,                         \* the exception in flight
    clean_df,                    \* run_pipeline's clean_df
    result,                      \* run_pipeline's result dict
    conn_open,                   \* store_data's connection
    guard_today,                 \* check_already_ingested_today's today
    guard_result,                \* what check_already_ingested_today returned
    records_written,             \* what store_data returned
    log,                         \* history: what the current run logged (the
                                 \* banners, the alert, the failure)
    stages,                      \* history: the stages the current run entered
    outcome                      \* what run_pipeline gave its caller

storeVars == <<table_exists, table_rows>>
fetchVars == <<max_retries, attempt, requests, sleeps, responses>>
stageVars == <<raw_data, clean_df, result>>
writerVars == <<conn_open, guard_today, guard_result, records_written>>
runVars == <<log, stages, outcome>>
vars == <<today, jsonErrorIsRequestException, storeVars, runs, calls, pc,
          fetchVars, stageVars, exc, writerVars, runVars>>

None == <<"None">>
Msg(s) == <<"msg", s>>

NoExc == [type |-> "none", msg |-> ""]
\* line 78
FetchExhausted(n) ==
    [type |-> "RuntimeError",
     msg |-> "API fetch failed after " \o ToString(n) \o " attempts"]
\* lines 70-72: the JSON error, re-raised
MalformedResponse ==
    [type |-> "JSONDecodeError", msg |-> "Expecting value: line 1 column 1 (char 0)"]
\* line 252
SchemaError ==
    [type |-> "ValueError",
     msg |-> "Schema validation failed - API structure may have changed"]
\* line 124
MissingColumn == [type |-> "KeyError", msg |-> "not in index"]
\* lines 138, 148
ComparisonTypeError ==
    [type |-> "TypeError",
     msg |-> "'<=' not supported between instances of 'str' and 'int'"]
\* line 143
StrAccessorError ==
    [type |-> "AttributeError", msg |-> "Can only use .str accessor with string values!"]
\* The exception a failing call of clean_and_validate_data leaves with.
CleanException(name) ==
    CASE name = "KeyError" -> MissingColumn
      [] name = "TypeError" -> ComparisonTypeError
      [] name = "AttributeError" -> StrAccessorError
\* sqlite3 / pandas failing inside store_data
StorageFailure == [type |-> "OperationalError", msg |-> "disk I/O error"]

\* lines 236-243
InitialResult ==
    [status |-> "FAILED", records_fetched |-> 0, records_stored |-> 0,
     quality_metrics |-> <<>>, error_message |-> None]
NoResult ==
    [status |-> "none", records_fetched |-> 0, records_stored |-> 0,
     quality_metrics |-> <<>>, error_message |-> None]

\* What a call of run_pipeline gives its caller: nothing yet, the result
\* record (line 285), or the exception that leaves it (line 278).
NoOutcome == [kind |-> "none"]
Returns(r) == [kind |-> "returned", result |-> r]
Raises(e) == [kind |-> "raised", exc |-> e]

\* Log entries.
StartBanner == <<"STARTING DATA PIPELINE">>
Alert(n) == <<"ALERT", n>>
PipelineFailed(m) == <<"Pipeline failed", m>>
Completed(status) == <<"Pipeline completed", status>>
EndBanner(status) == <<"PIPELINE FINISHED", status>>

\* What one requests.get + raise_for_status + json() can meet.
FailureKinds == {"timeout", "http_error", "request_error", "malformed"}
Responses ==
    { [kind |-> k, body |-> <<>>] : k \in FailureKinds }
    \cup { [kind |-> "ok", body |-> b] : b \in Payloads }

InitCommon ==
    /\ today = 1
    /\ table_exists = FALSE
    /\ table_rows = <<>>
    /\ runs = 0
    /\ calls = <<>>
    /\ attempt = [p \in Procs |-> 1]
    /\ requests = [p \in Procs |-> 0]
    /\ sleeps = [p \in Procs |-> 0]
    /\ responses = [p \in Procs |-> <<>>]
    /\ exc = [p \in Procs |-> NoExc]
    /\ clean_df = [p \in Procs |-> <<>>]
    /\ conn_open = [p \in Procs |-> FALSE]
    /\ guard_today = [p \in Procs |-> 0]
    /\ guard_result = [p \in Procs |-> FALSE]
    /\ records_written = [p \in Procs |-> 0]
    /\ log = [p \in Procs |-> <<>>]
    /\ stages = [p \in Procs |-> <<>>]
    /\ outcome = [p \in Procs |-> NoOutcome]

\* The scheduler has started nothing yet; p1 is the invocation it will run.
Init ==
    /\ InitCommon
    /\ jsonErrorIsRequestException \in BOOLEAN
    /\ pc = [p \in Procs |-> IF p = "p1" THEN "idle" ELSE "off"]
    /\ max_retries = [p \in Procs |-> MAX_RETRIES]
    /\ raw_data = [p \in Procs |-> <<>>]
    /\ result = [p \in Procs |-> NoResult]

(***************************************************************************)
(* fetch_data_from_api (lines 49-78).                                      *)
(***************************************************************************)
\* Fault variant of in_range: range(1, max_retries).
in_range_exclusive(a, n) == a < n

\* Fault variant of in_range: range(1, max_retries + 2).
in_range_one_more(a, n) == a <= n + 1

\* for attempt in range(1, max_retries + 1)
in_range(a, n) == a <= n

\* Fault variant of retry_wait: the sleep is not guarded by the attempt.
retry_wait_always(a, n) == TRUE

\* line 74
retry_wait(a, n) == a < n

\* The except clause (lines 64-72) that takes the failure, in the order the
\* clauses are written.  Timeout and HTTPError derive from RequestException
\* and are listed before it.  The error json() raises derives from ValueError,
\* and in requests >= 2.27 from RequestException too, whose clause comes
\* first.
except_clause(kind, jsonIsRequestException) ==
    CASE kind = "timeout" -> "Timeout"
      [] kind = "http_error" -> "HTTPError"
      [] kind = "request_error" -> "RequestException"
      [] kind = "malformed" ->
            IF jsonIsRequestException THEN "RequestException" ELSE "ValueError"

\* Fault variant of attempt_outcome: the success path does not return.
attempt_outcome_no_return(kind, a, n, jsonIsRequestException) ==
    IF kind # "ok" /\ except_clause(kind, jsonIsRequestException) = "ValueError"
    THEN "raise"
    ELSE IF a < n THEN "sleep"
    ELSE "next"

\* Where one pass of the loop body goes after its request (lines 55-76):
\* "return" (line 62), "raise" (line 72), "sleep" (lines 74-76, then the next
\* pass) or "next" (the next pass at once).
attempt_outcome(kind, a, n, jsonIsRequestException) ==
    IF kind = "ok" THEN "return"
    ELSE IF except_clause(kind, jsonIsRequestException) = "ValueError" THEN "raise"
    ELSE IF retry_wait(a, n) THEN "sleep"
    ELSE "next"

\* One pass of the loop body up to the sleep: the request, and the handler
\* of what it met.
FetchRequest(p) ==
    /\ pc[p] = "fetch"
    /\ in_range(attempt[p], max_retries[p])
    /\ \E resp \in Responses :
        LET o == attempt_outcome(resp.kind, attempt[p], max_retries[p],
                                 jsonErrorIsRequestException)
        IN  /\ requests' = [requests EXCEPT ![p] = @ + 1]
            /\ responses' = [responses EXCEPT ![p] = Append(@, resp)]
            /\ raw_data' = [raw_data EXCEPT ![p] = IF o = "return" THEN resp.body ELSE @]
            /\ exc' = [exc EXCEPT ![p] = IF o = "raise" THEN MalformedResponse ELSE @]
            /\ attempt' = [attempt EXCEPT ![p] = IF o = "next" THEN @ + 1 ELSE @]
            /\ pc' = [pc EXCEPT ![p] =
                        CASE o = "return" -> "fetched"
                          [] o = "raise" -> "raised"
                          [] o = "sleep" -> "sleep"
                          [] o = "next" -> "fetch"]
    /\ UNCHANGED <<runVars, today, jsonErrorIsRequestException, storeVars, runs, calls,
                   max_retries, sleeps, clean_df, result, writerVars>>

\* lines 74-76, then the loop's next pass
FetchSleep(p) ==
    /\ pc[p] = "sleep"
    /\ sleeps' = [sleeps EXCEPT ![p] = @ + 1]
    /\ attempt' = [attempt EXCEPT ![p] = @ + 1]
    /\ pc' = [pc EXCEPT ![p] = "fetch"]
    /\ UNCHANGED <<runVars, today, jsonErrorIsRequestException, storeVars, runs, calls,
                   max_retries, requests, responses, stageVars, exc, writerVars>>

\* line 78: the loop has ended without a return
FetchRaise(p) ==
    /\ pc[p] = "fetch"
    /\ ~in_range(attempt[p], max_retries[p])
    /\ exc' = [exc EXCEPT ![p] = FetchExhausted(max_retries[p])]
    /\ pc' = [pc EXCEPT ![p] = "raised"]
    /\ UNCHANGED <<runVars, today, jsonErrorIsRequestException, storeVars, runs, calls,
                   fetchVars, stageVars, writerVars>>

\* fetch_data_from_api called on its own, with any max_retries.
InitFetch ==
    /\ InitCommon
    /\ jsonErrorIsRequestException \in BOOLEAN
    /\ pc = [p \in Procs |-> IF p = "p1" THEN "fetch" ELSE "off"]
    /\ max_retries \in { [p \in Procs |-> n] : n \in 0..MaxAttempts }
    /\ raw_data = [p \in Procs |-> <<>>]
    /\ result = [p \in Procs |-> NoResult]

NextFetch == \E p \in Procs : FetchRequest(p) \/ FetchSleep(p) \/ FetchRaise(p)

SpecFetch == InitFetch /\ [][NextFetch]_vars

(***************************************************************************)
(* run_pipeline (lines 225-285), its stages in order.                      *)
(***************************************************************************)
\* lines 232-246: the start banner, the result record, the call of the fetcher
StartRun(p) ==
    /\ pc[p] \in {"idle", "done", "failed"}
    /\ runs < MaxRuns
    /\ runs' = runs + 1
    /\ result' = [result EXCEPT ![p] = InitialResult]
    /\ max_retries' = [max_retries EXCEPT ![p] = MAX_RETRIES]
    /\ attempt' = [attempt EXCEPT ![p] = 1]
    /\ requests' = [requests EXCEPT ![p] = 0]
    /\ sleeps' = [sleeps EXCEPT ![p] = 0]
    /\ responses' = [responses EXCEPT ![p] = <<>>]
    /\ raw_data' = [raw_data EXCEPT ![p] = <<>>]
    /\ clean_df' = [clean_df EXCEPT ![p] = <<>>]
    /\ exc' = [exc EXCEPT ![p] = NoExc]
    /\ guard_today' = [guard_today EXCEPT ![p] = 0]
    /\ guard_result' = [guard_result EXCEPT ![p] = FALSE]
    /\ records_written' = [records_written EXCEPT ![p] = 0]
    /\ log' = [log EXCEPT ![p] = <<StartBanner>>]
    /\ stages' = [stages EXCEPT ![p] = <<"fetch">>]
    /\ outcome' = [outcome EXCEPT ![p] = NoOutcome]
    /\ pc' = [pc EXCEPT ![p] = "fetch"]
    /\ UNCHANGED <<today, jsonErrorIsRequestException, storeVars, calls, conn_open>>

\* fetch_data_from_api has returned or raised: its locals are gone, and
\* with them what was recorded of its requests
FetcherFrameGone(p) ==
    /\ attempt' = [attempt EXCEPT ![p] = 1]
    /\ requests' = [requests EXCEPT ![p] = 0]
    /\ sleeps' = [sleeps EXCEPT ![p] = 0]
    /\ responses' = [responses EXCEPT ![p] = <<>>]
    /\ UNCHANGED max_retries

\* lines 248-252
Validate(p) ==
    /\ pc[p] = "fetched"
    /\ result' = [result EXCEPT ![p].records_fetched = Len(raw_data[p])]
    /\ IF validate_schema(raw_data[p], REQUIRED_FIELDS)
       THEN /\ pc' = [pc EXCEPT ![p] = "clean"]
            /\ UNCHANGED exc
       ELSE /\ exc' = [exc EXCEPT ![p] = SchemaError]
            /\ pc' = [pc EXCEPT ![p] = "raised"]
    /\ stages' = [stages EXCEPT ![p] = Append(@, "validate")]
    /\ FetcherFrameGone(p)
    /\ UNCHANGED <<log, outcome, today, jsonErrorIsRequestException, storeVars, runs,
                   calls, raw_data, clean_df, writerVars>>

\* line 259
low_record_count(n) == n < MIN_EXPECTED_RECORDS

\* lines 254-260, r being what clean_and_validate_data comes back with
CleanReturns(p, r) ==
    /\ pc[p] = "clean"
    /\     IF r.raised = "none"
           THEN /\ clean_df' = [clean_df EXCEPT ![p] = r.df]
                /\ result' = [result EXCEPT ![p].quality_metrics = r.metrics]
                /\ log' = [log EXCEPT ![p] =
                              IF low_record_count(Len(r.df))
                              THEN Append(@, Alert(Len(r.df))) ELSE @]
                /\ pc' = [pc EXCEPT ![p] = "store"]
                /\ UNCHANGED exc
           ELSE /\ exc' = [exc EXCEPT ![p] = CleanException(r.raised)]
                /\ pc' = [pc EXCEPT ![p] = "raised"]
                /\ UNCHANGED <<clean_df, result, log>>
    /\ stages' = [stages EXCEPT ![p] = Append(@, "clean")]
    /\ UNCHANGED <<outcome, today, jsonErrorIsRequestException, storeVars, runs, calls,
                   fetchVars, raw_data, writerVars>>

\* lines 254-260
Clean(p) == CleanReturns(p, clean_and_validate_data(raw_data[p], today))

(***************************************************************************)
(* check_already_ingested_today (lines 175-194) and store_data (lines      *)
(* 200-219).  The store is the table's existence and its rows.             *)
(***************************************************************************)
\* Fault variant of check_already_ingested_today: count >= 0.
check_already_ingested_count_ge_0(exists, rows, now) == exists

\* Fault variant of check_already_ingested_today: the guard reports nothing.
check_already_ingested_never(exists, rows, now) == FALSE

\* Fault variant of check_already_ingested_today: count > 1.
check_already_ingested_count_gt_1(exists, rows, now) ==
    /\ exists
    /\ Cardinality({ i \in 1..Len(rows) : rows[i]["fetch_date"] = strftime(now) }) > 1

check_already_ingested_today(exists, rows, now) ==
    IF ~exists
    THEN FALSE
    ELSE LET count == Cardinality({ i \in 1..Len(rows) :
                                      rows[i]["fetch_date"] = strftime(now) })
         IN  count > 0

Store == [exists |-> table_exists, rows |-> table_rows]

\* One call of store_data that has ended, for the history.
CallRecord(p, period, written, raised, after) ==
    [run |-> runs, proc |-> p, period |-> period, written |-> written,
     raised |-> raised, before |-> Store, after |-> after]

\* conn.close() after the body instead of in a finally clause
conn_after_close_unless_raised(raised) == raised

\* lines 218-219: conn.close() in the finally clause, whether the body
\* returned or raised
conn_after_close(raised) == FALSE

\* to_sql with if_exists='replace'
to_sql_replace(rows, df) == df
\* line 214: to_sql(if_exists='append') puts the frame's rows after the rows
\* the table holds
to_sql_append(rows, df) == rows \o df

\* line 205
StoreConnect(p) ==
    /\ pc[p] = "store"
    /\ conn_open' = [conn_open EXCEPT ![p] = TRUE]
    /\ pc' = [pc EXCEPT ![p] = "guard"]
    /\ stages' = [stages EXCEPT ![p] = Append(@, "store")]
    /\ UNCHANGED <<log, outcome, today, jsonErrorIsRequestException, storeVars, runs, calls,
                   fetchVars, stageVars, exc, guard_today, guard_result,
                   records_written>>

\* lines 209-212: the guard; when it reports the period ingested, return 0
\* through the finally clause
StoreGuard(p) ==
    /\ pc[p] = "guard"
    /\ LET ingested == check_already_ingested_today(table_exists, table_rows, today)
       IN  /\ guard_today' = [guard_today EXCEPT ![p] = today]
           /\ guard_result' = [guard_result EXCEPT ![p] = ingested]
           /\ IF ingested
              THEN /\ records_written' = [records_written EXCEPT ![p] = 0]
                   /\ conn_open' = [conn_open EXCEPT ![p] = conn_after_close(FALSE)]
                   /\ calls' = Append(calls, CallRecord(p, today, 0, FALSE, Store))
                   /\ pc' = [pc EXCEPT ![p] = "stored"]
              ELSE /\ pc' = [pc EXCEPT ![p] = "append"]
                   /\ UNCHANGED <<records_written, conn_open, calls>>
    /\ UNCHANGED <<runVars, today, jsonErrorIsRequestException, storeVars, runs,
                   fetchVars, stageVars, exc>>

\* a query of the guard fails: the finally clause, then the exception
StoreGuardRaises(p) ==
    /\ pc[p] = "guard"
    /\ guard_today' = [guard_today EXCEPT ![p] = today]
    /\ conn_open' = [conn_open EXCEPT ![p] = conn_after_close(TRUE)]
    /\ exc' = [exc EXCEPT ![p] = StorageFailure]
    /\ calls' = Append(calls, CallRecord(p, today, 0, TRUE, Store))
    /\ pc' = [pc EXCEPT ![p] = "raised"]
    /\ UNCHANGED <<runVars, today, jsonErrorIsRequestException, storeVars, runs,
                   fetchVars, stageVars, guard_result, records_written>>

\* a writer that asks the guard again in the step that appends (check and
\* append as one transaction)
StoreAppendRechecks(p) ==
    /\ pc[p] = "append"
    /\ LET ingested == check_already_ingested_today(table_exists, table_rows,
                                                    guard_today[p])
           written == IF ingested THEN 0 ELSE Len(clean_df[p])
           after == IF ingested THEN Store
                    ELSE [exists |-> TRUE,
                          rows |-> to_sql_append(table_rows, clean_df[p])]
       IN  /\ table_exists' = after.exists
           /\ table_rows' = after.rows
           /\ records_written' = [records_written EXCEPT ![p] = written]
           /\ calls' = Append(calls,
                         CallRecord(p, guard_today[p], written, FALSE, after))
    /\ conn_open' = [conn_open EXCEPT ![p] = conn_after_close(FALSE)]
    /\ pc' = [pc EXCEPT ![p] = "stored"]
    /\ UNCHANGED <<runVars, today, jsonErrorIsRequestException, runs, fetchVars,
                   stageVars, exc, guard_today, guard_result>>

\* lines 214-216: to_sql(if_exists='append') makes the table when it is
\* absent and inserts the frame's rows; return len(df) through the finally
\* clause
StoreAppend(p) ==
    /\ pc[p] = "append"
    /\ table_exists' = TRUE
    /\ table_rows' = to_sql_append(table_rows, clean_df[p])
    /\ records_written' = [records_written EXCEPT ![p] = Len(clean_df[p])]
    /\ conn_open' = [conn_open EXCEPT ![p] = conn_after_close(FALSE)]
    /\ calls' = Append(calls,
                  CallRecord(p, guard_today[p], Len(clean_df[p]), FALSE,
                             [exists |-> TRUE,
                              rows |-> to_sql_append(table_rows, clean_df[p])]))
    /\ pc' = [pc EXCEPT ![p] = "stored"]
    /\ UNCHANGED <<runVars, today, jsonErrorIsRequestException, runs, fetchVars,
                   stageVars, exc, guard_today, guard_result>>

\* store_data catching the failure of to_sql and returning the number of
\* rows that landed
StoreAppendReturnsLanded(p) ==
    /\ pc[p] = "append"
    /\ \E made \in BOOLEAN, k \in 0..Len(clean_df[p]) :
        /\ k = 0 \/ k < Len(clean_df[p])
        /\ LET landed == SubSeq(clean_df[p], 1, k)
               after == [exists |-> table_exists \/ made \/ k > 0,
                         rows |-> to_sql_append(table_rows, landed)]
           IN  /\ table_exists' = after.exists
               /\ table_rows' = after.rows
               /\ records_written' = [records_written EXCEPT ![p] = k]
               /\ calls' = Append(calls,
                             CallRecord(p, guard_today[p], k, FALSE, after))
    /\ conn_open' = [conn_open EXCEPT ![p] = conn_after_close(FALSE)]
    /\ pc' = [pc EXCEPT ![p] = "stored"]
    /\ UNCHANGED <<runVars, today, jsonErrorIsRequestException, runs,
                   fetchVars, stageVars, exc, guard_today, guard_result>>

\* to_sql fails part of the way through.  The table may have been made
\* before the failure; whether the rows inserted before it stay is the
\* store's doing (a rolled back transaction keeps none, k = 0), so every
\* proper prefix of the frame is taken.  The finally clause, then the
\* exception: line 264 never assigns the count.
StoreAppendRaises(p) ==
    /\ pc[p] = "append"
    /\ \E made \in BOOLEAN, k \in 0..Len(clean_df[p]) :
        /\ k = 0 \/ k < Len(clean_df[p])
        /\ LET landed == SubSeq(clean_df[p], 1, k)
               after == [exists |-> table_exists \/ made \/ k > 0,
                         rows |-> to_sql_append(table_rows, landed)]
           IN  /\ table_exists' = after.exists
               /\ table_rows' = after.rows
               /\ calls' = Append(calls,
                             CallRecord(p, guard_today[p], 0, TRUE, after))
    /\ conn_open' = [conn_open EXCEPT ![p] = conn_after_close(TRUE)]
    /\ exc' = [exc EXCEPT ![p] = StorageFailure]
    /\ pc' = [pc EXCEPT ![p] = "raised"]
    /\ UNCHANGED <<runVars, today, jsonErrorIsRequestException, runs,
                   fetchVars, stageVars, guard_today, guard_result, records_written>>

\* the comparison written >= 0
final_status_nonnegative(records_stored) ==
    IF records_stored >= 0 THEN "SUCCESS" ELSE "SKIPPED"

\* lines 267-272
final_status(records_stored) ==
    IF records_stored > 0 THEN "SUCCESS" ELSE "SKIPPED"

\* lines 264-272: the count, the status and its log line; on to the finally
\* clause
Finish(p) ==
    /\ pc[p] = "stored"
    /\ result' = [result EXCEPT
                    ![p].records_stored = records_written[p],
                    ![p].status = final_status(records_written[p])]
    /\ log' = [log EXCEPT ![p] = Append(@, Completed(final_status(records_written[p])))]
    /\ pc' = [pc EXCEPT ![p] = "finally"]
    /\ UNCHANGED <<stages, outcome, today, jsonErrorIsRequestException, storeVars, runs,
                   calls, fetchVars, raw_data, clean_df, exc, writerVars>>

\* an except clause that does not record the message
error_message_unset(e) == None

\* line 276: str(e)
error_message_of(e) == Msg(e.msg)

\* lines 274-277: the except clause sets the status and the message and logs
\* the failure; its bare raise (line 278) passes through the finally clause
HandleException(p) ==
    /\ pc[p] = "raised"
    /\ result' = [result EXCEPT ![p].status = "FAILED",
                                ![p].error_message = error_message_of(exc[p])]
    /\ log' = [log EXCEPT ![p] = Append(@, PipelineFailed(exc[p].msg))]
    /\ pc' = [pc EXCEPT ![p] = "finally"]
    /\ FetcherFrameGone(p)
    /\ UNCHANGED <<stages, outcome, today, jsonErrorIsRequestException, storeVars, runs,
                   calls, raw_data, clean_df, exc, writerVars>>

\* an except clause without its raise: the result is returned
leave_swallowed(e, r) == Returns(r)

\* lines 278 and 285: how the call ends once the finally clause is through:
\* the exception the except clause raised again leaves the function, and
\* line 285 is reached only when there is none
leave(e, r) == IF e # NoExc THEN Raises(e) ELSE Returns(r)

\* lines 280-285: the finally clause logs the end banner; then the pending
\* exception goes on to the caller, or the result is returned
Finally(p) ==
    /\ pc[p] = "finally"
    /\ log' = [log EXCEPT ![p] = Append(@, EndBanner(result[p].status))]
    /\ outcome' = [outcome EXCEPT ![p] = leave(exc[p], result[p])]
    /\ pc' = [pc EXCEPT ![p] = IF exc[p] # NoExc THEN "failed" ELSE "done"]
    /\ UNCHANGED <<stages, today, jsonErrorIsRequestException, storeVars, runs, calls,
                   fetchVars, stageVars, exc, writerVars>>

\* midnight
Tick ==
    /\ today < MaxDay
    /\ today' = today + 1
    /\ UNCHANGED <<jsonErrorIsRequestException, storeVars, runs, calls, pc,
                   fetchVars, stageVars, exc, writerVars, runVars>>

Next ==
    \/ Tick
    \/ \E p \in Procs :
        \/ StartRun(p)
        \/ FetchRequest(p) \/ FetchSleep(p) \/ FetchRaise(p)
        \/ Validate(p)
        \/ Clean(p)
        \/ StoreConnect(p)
        \/ StoreGuard(p) \/ StoreGuardRaises(p)
        \/ StoreAppend(p) \/ StoreAppendRaises(p)
        \/ Finish(p)
        \/ HandleException(p)
        \/ Finally(p)

Spec == Init /\ [][Next]_vars

\* clean_and_validate_data on the payloads and days of Spec, as a table.
cleaned ==
    [data \in Payloads, now \in 1..MaxDay |-> clean_and_validate_data(data, now)]

\* A step of an invocation that has started.  The interpreter goes on with
\* a call that is under way: requests.get ends within its timeout (line
\* 57), time.sleep within its delay (line 76), and a query of the store with
\* an answer or an error.  The cleaning step is Clean(p), its call's value
\* read from the table: raw_data[p] is a payload in every state of Spec.
RunStep(p) ==
    \/ FetchRequest(p) \/ FetchSleep(p) \/ FetchRaise(p)
    \/ Validate(p)
    \/ CleanReturns(p, cleaned[raw_data[p], today])
    \/ StoreConnect(p)
    \/ StoreGuard(p) \/ StoreGuardRaises(p)
    \/ StoreAppend(p) \/ StoreAppendRaises(p)
    \/ Finish(p)
    \/ HandleException(p)
    \/ Finally(p)

\* run_pipeline with every started invocation going on to its end; when
\* the scheduler starts an invocation, and when midnight comes, is left
\* open.
SpecLive == Init /\ [][Next]_vars /\ \A p \in Procs : WF_vars(RunStep(p))

\* Two invocations in flight against the same store (two triggers of the
\* job at about the same time), each holding the batch its first request
\* returned; line 248 is next for both.
InitConc ==
    /\ today = 1
    /\ jsonErrorIsRequestException = TRUE
    /\ table_exists = FALSE
    /\ table_rows = <<>>
    /\ runs = Cardinality(Procs)
    /\ calls = <<>>
    /\ pc = [p \in Procs |-> "fetched"]
    /\ max_retries = [p \in Procs |-> MAX_RETRIES]
    /\ attempt = [p \in Procs |-> 1]
    /\ requests = [p \in Procs |-> 1]
    /\ sleeps = [p \in Procs |-> 0]
    /\ raw_data \in [Procs -> Payloads]
    /\ responses = [p \in Procs |-> <<[kind |-> "ok", body |-> raw_data[p]]>>]
    /\ exc = [p \in Procs |-> NoExc]
    /\ clean_df = [p \in Procs |-> <<>>]
    /\ result = [p \in Procs |-> InitialResult]
    /\ conn_open = [p \in Procs |-> FALSE]
    /\ guard_today = [p \in Procs |-> 0]
    /\ guard_result = [p \in Procs |-> FALSE]
    /\ records_written = [p \in Procs |-> 0]
    /\ log = [p \in Procs |-> <<StartBanner>>]
    /\ stages = [p \in Procs |-> <<"fetch">>]
    /\ outcome = [p \in Procs |-> NoOutcome]

\* Each invocation goes on by itself; the steps of the two interleave.
NextConc ==
    \E p \in Procs :
        \/ Validate(p)
        \/ Clean(p)
        \/ StoreConnect(p)
        \/ StoreGuard(p) \/ StoreGuardRaises(p)
        \/ StoreAppend(p) \/ StoreAppendRaises(p)
        \/ Finish(p)
        \/ HandleException(p)
        \/ Finally(p)

SpecConc == InitConc /\ [][NextConc]_vars

\* run_pipeline from line 248 to line 256, on any batch the fetcher returned
\* at its first request.
InitStages ==
    /\ InitCommon
    /\ jsonErrorIsRequestException = TRUE    \* no request is made any more
    /\ pc = [p \in Procs |-> IF p = "p1" THEN "fetched" ELSE "off"]
    /\ max_retries = [p \in Procs |-> MAX_RETRIES]
    /\ raw_data \in { [p \in Procs |-> IF p = "p1" THEN b ELSE <<>>] :
                        b \in BatchesOf(StageRecords, MaxLen) }
    /\ result = [p \in Procs |-> IF p = "p1" THEN InitialResult ELSE NoResult]

NextStages == \E p \in Procs : Validate(p) \/ Clean(p)

SpecStages == InitStages /\ [][NextStages]_vars

\* validate_schema called on its own, on any batch.
InitValidate ==
    /\ InitCommon
    /\ jsonErrorIsRequestException = TRUE    \* the stage makes no request
    /\ pc = [p \in Procs |-> IF p = "p1" THEN "fetched" ELSE "off"]
    /\ max_retries = [p \in Procs |-> MAX_RETRIES]
    /\ raw_data \in { [p \in Procs |-> IF p = "p1" THEN b ELSE <<>>] :
                        b \in BatchesOf(ValidateRecords, MaxLen) }
    /\ result = [p \in Procs |-> IF p = "p1" THEN InitialResult ELSE NoResult]

NextValidate == \E p \in Procs : Validate(p)

SpecValidate == InitValidate /\ [][NextValidate]_vars

\* clean_and_validate_data called on its own, on any batch.
InitClean ==
    /\ InitCommon
    /\ jsonErrorIsRequestException = TRUE    \* the stage makes no request
    /\ pc = [p \in Procs |-> IF p = "p1" THEN "clean" ELSE "off"]
    /\ max_retries = [p \in Procs |-> MAX_RETRIES]
    /\ raw_data \in { [p \in Procs |-> IF p = "p1" THEN b ELSE <<>>] :
                        b \in BatchesOf(CleanRecords, MaxLen) }
    /\ result = [p \in Procs |-> IF p = "p1" THEN InitialResult ELSE NoResult]

NextClean == \E p \in Procs : Clean(p)

SpecClean == InitClean /\ [][NextClean]_vars

(***************************************************************************)
(* Properties of the fetcher, checked under SpecFetch.                     *)
(***************************************************************************)
TransportFailures == {"timeout", "http_error", "request_error"}

AllTransportFailures(p) ==
    \A i \in 1..Len(responses[p]) : responses[p][i].kind \in TransportFailures

\* C1: when every attempt meets a timeout, a transport error or a non-2xx
\* status, the fetch never returns and gives no records; it makes no more
\* than max_retries requests, and when it has made them all the loop is over
\* and the fetch ends with the RuntimeError of line 78, carrying the attempt
\* count, after exactly max_retries requests.
C1_RetryExhaustion ==
    \A p \in Procs :
        (pc[p] # "off" /\ max_retries[p] >= 1 /\ AllTransportFailures(p)) =>
            /\ pc[p] # "fetched"
            /\ raw_data[p] = <<>>
            /\ requests[p] <= max_retries[p]
            /\ requests[p] = Len(responses[p])
            /\ (requests[p] = max_retries[p] => ~ENABLED FetchRequest(p))
            /\ (requests[p] = max_retries[p] => pc[p] = "raised" \/ ENABLED FetchRaise(p))
            /\ (pc[p] = "raised" =>
                    /\ exc[p] = FetchExhausted(max_retries[p])
                    /\ requests[p] = max_retries[p])

C1_Witness ==
    /\ pc["p1"] = "raised"
    /\ max_retries["p1"] = 3
    /\ requests["p1"] = 3
    /\ AllTransportFailures("p1")
    /\ exc["p1"].type = "RuntimeError"

\* C2 (as claimed): a response whose payload does not parse is the last
\* thing the fetch does: it ends at once with the JSON error, with no sleep
\* and no request after it.
C2_MalformedFailsImmediately ==
    \A p \in Procs :
        \A i \in 1..Len(responses[p]) :
            responses[p][i].kind = "malformed" =>
                /\ i = Len(responses[p])
                /\ pc[p] = "raised"
                /\ exc[p] = MalformedResponse

\* C3: when attempt k is the first that succeeds, the fetch has made exactly
\* k requests, has returned the collection of attempt k, and does nothing
\* more: no request and no sleep is enabled after it, and the k - 1 sleeps
\* it made all came before.
C3_FirstSuccessReturns ==
    \A p \in Procs :
        \A k \in 1..Len(responses[p]) :
            responses[p][k].kind = "ok" =>
                /\ k = Len(responses[p])
                /\ k <= max_retries[p]
                /\ requests[p] = k
                /\ attempt[p] = k
                /\ sleeps[p] = k - 1
                /\ pc[p] = "fetched"
                /\ raw_data[p] = responses[p][k].body
                /\ exc[p] = NoExc
                /\ ~ENABLED FetchRequest(p)
                /\ ~ENABLED FetchSleep(p)

C3_Witness ==
    /\ Len(responses["p1"]) = 2
    /\ responses["p1"][1].kind = "timeout"
    /\ responses["p1"][2].kind = "ok"
    /\ raw_data["p1"] = ExampleBatch
    /\ pc["p1"] = "fetched"

(***************************************************************************)
(* Properties of the schema validator and of the quality filter, stated on *)
(* the raw records, whose fields are read by path (the nested rating       *)
(* object's rate is the path <<"rating", "rate">>), not through            *)
(* json_normalize.                                                         *)
(***************************************************************************)
RequiredPaths ==
    { <<"id">>, <<"title">>, <<"category">>, <<"price">>,
      <<"rating", "rate">>, <<"rating", "count">> }

\* Whether the record gives a value (null included) at the path.
HasPath(rec, path) ==
    /\ path[1] \in DOMAIN rec
    /\ IF Len(path) = 1
       THEN ~IsDict(rec[path[1]])
       ELSE /\ IsDict(rec[path[1]])
            /\ path[2] \in DOMAIN rec[path[1]][2]
            /\ ~IsDict(rec[path[1]][2][path[2]])

\* The value at the path, missing when the record gives none.
FieldAt(rec, path) ==
    IF ~HasPath(rec, path) THEN NA
    ELSE IF Len(path) = 1 THEN rec[path[1]]
    ELSE rec[path[1]][2][path[2]]

Returned(p) == pc[p] = "store"     \* clean_and_validate_data has returned

BadPrice(rec) ==
    LET v == FieldAt(rec, <<"price">>) IN v = NA \/ v[2] <= 0

BadCategory(rec) ==
    LET v == FieldAt(rec, <<"category">>)
    IN  v = NA \/ \A i \in 1..Len(v[2]) : v[2][i] \in Whitespace

BadRating(rec) ==
    LET v == FieldAt(rec, <<"rating", "rate">>)
    IN  v = NA \/ ~(0 <= v[2] /\ v[2] <= 50)

PassesRules(rec) == ~BadPrice(rec) /\ ~BadCategory(rec) /\ ~BadRating(rec)

IdOf(rec) == FieldAt(rec, <<"id">>)

\* C4: validate_schema gives true exactly when the batch is not empty and
\* its first record gives every required field; nothing after the first
\* record enters the result.
C4_ValidateFirstRecord ==
    \A p \in Procs :
        pc[p] \in {"clean", "raised"} =>
            ( pc[p] = "clean" <=>
                /\ raw_data[p] # <<>>
                /\ \A path \in RequiredPaths : HasPath(raw_data[p][1], path) )

C4_Witness ==
    /\ pc["p1"] = "raised"
    /\ exc["p1"] = SchemaError
    /\ Len(raw_data["p1"]) = 2
    /\ ~HasPath(raw_data["p1"][1], <<"price">>)
    /\ \A path \in RequiredPaths : HasPath(raw_data["p1"][2], path)

\* C5: no record whose price is missing or <= 0 is in the clean output, and
\* invalid_price is the number of such records in the raw batch.
C5_InvalidPrice ==
    \A p \in Procs :
        Returned(p) =>
            /\ \A i \in 1..Len(clean_df[p]) :
                   /\ clean_df[p][i]["price"][1] = "num"
                   /\ clean_df[p][i]["price"][2] > 0
            /\ result[p].quality_metrics.invalid_price =
                   Cardinality({ i \in 1..Len(raw_data[p]) : BadPrice(raw_data[p][i]) })
            /\ Len(clean_df[p]) <=
                   Cardinality({ i \in 1..Len(raw_data[p]) : ~BadPrice(raw_data[p][i]) })

C5_Witness ==
    /\ Returned("p1")
    /\ result["p1"].quality_metrics.invalid_price = 2
    /\ Len(clean_df["p1"]) = 1
    /\ \E i \in 1..Len(raw_data["p1"]) : FieldAt(raw_data["p1"][i], <<"price">>) = Num(0)
    /\ \E i \in 1..Len(raw_data["p1"]) : ~HasPath(raw_data["p1"][i], <<"price">>)

RawIds(data) == { IdOf(data[i]) : i \in 1..Len(data) }
HasRepeatedIds(data) == Cardinality(RawIds(data)) < Len(data)
Survivors(df, id) == { i \in 1..Len(df) : df[i]["id"] = id }

\* C6 (as claimed): in a batch with repeated ids, each id of the batch is in
\* the clean output exactly once, and duplicates_removed is the number of
\* occurrences of an id beyond its first in the batch.
C6_OneInstanceOfEachId ==
    \A p \in Procs :
        (Returned(p) /\ HasRepeatedIds(raw_data[p])) =>
            /\ \A id \in RawIds(raw_data[p]) :
                   Cardinality(Survivors(clean_df[p], id)) = 1
            /\ result[p].quality_metrics.duplicates_removed =
                   Len(raw_data[p]) - Cardinality(RawIds(raw_data[p]))

PassingPositions(data) == { i \in 1..Len(data) : PassesRules(data[i]) }
PassingIds(data) == { IdOf(data[i]) : i \in PassingPositions(data) }

\* C6 (amended): the duplicate rule sees only the records that pass the
\* price, category and rating rules.  Each id that such a record carries is
\* in the clean output exactly once, every other id not at all, and
\* duplicates_removed is the number of occurrences of an id beyond its
\* first among those records.
C6_OneInstanceOfEachPassingId ==
    \A p \in Procs :
        Returned(p) =>
            /\ \A id \in RawIds(raw_data[p]) :
                   Cardinality(Survivors(clean_df[p], id)) =
                       IF id \in PassingIds(raw_data[p]) THEN 1 ELSE 0
            /\ result[p].quality_metrics.duplicates_removed =
                   Cardinality(PassingPositions(raw_data[p]))
                       - Cardinality(PassingIds(raw_data[p]))

C6_Witness ==
    /\ Returned("p1")
    /\ Len(raw_data["p1"]) = 3
    /\ Cardinality(RawIds(raw_data["p1"])) = 1
    /\ Cardinality(PassingPositions(raw_data["p1"])) = 2
    /\ result["p1"].quality_metrics.duplicates_removed = 1
    /\ Len(clean_df["p1"]) = 1

\* The reference filter: one pass over the records in payload order; a
\* record is given to the first rule that rejects it, or kept.
RefRow(rec, now) ==
    [c \in REQUIRED_FIELDS \cup {"fetch_date"} |->
        CASE c = "id" -> FieldAt(rec, <<"id">>)
          [] c = "title" -> FieldAt(rec, <<"title">>)
          [] c = "category" -> FieldAt(rec, <<"category">>)
          [] c = "price" -> FieldAt(rec, <<"price">>)
          [] c = "rating.rate" -> FieldAt(rec, <<"rating", "rate">>)
          [] c = "rating.count" -> FieldAt(rec, <<"rating", "count">>)
          [] c = "fetch_date" -> strftime(now)]

RECURSIVE RefClean(_, _, _)
RefClean(data, now, acc) ==
    IF data = <<>> THEN acc
    ELSE LET rec == Head(data)
             m == acc.metrics
             next ==
                IF BadPrice(rec)
                THEN [acc EXCEPT !.metrics.invalid_price = @ + 1]
                ELSE IF BadCategory(rec)
                THEN [acc EXCEPT !.metrics.invalid_category = @ + 1]
                ELSE IF BadRating(rec)
                THEN [acc EXCEPT !.metrics.invalid_rating = @ + 1]
                ELSE IF IdOf(rec) \in acc.seen
                THEN [acc EXCEPT !.metrics.duplicates_removed = @ + 1]
                ELSE [acc EXCEPT !.out = Append(@, RefRow(rec, now)),
                                 !.seen = @ \cup {IdOf(rec)},
                                 !.metrics.clean_records = @ + 1]
         IN  RefClean(Tail(data), now,
                      [next EXCEPT !.metrics.raw_records = @ + 1])

RefCleanOf(data, now) ==
    RefClean(data, now, [out |-> <<>>, seen |-> {}, metrics |-> NoMetrics])

\* C7: the clean output and the metrics are those of the reference filter;
\* no two clean records share an id; the batch [id 1 valid, id 1 valid,
\* id 2 price -5] gives one record, id 1, and the metrics 3, 1, 0, 0, 1, 1.
C7_CleanEqualsReference ==
    \A p \in Procs :
        Returned(p) =>
            LET df == clean_df[p]
                m == result[p].quality_metrics
            IN  /\ \E d \in 1..today :
                       /\ df = RefCleanOf(raw_data[p], d).out
                       /\ m = RefCleanOf(raw_data[p], d).metrics
                /\ \A i, j \in 1..Len(df) : df[i]["id"] = df[j]["id"] => i = j
                /\ raw_data[p] = ExampleBatch =>
                       /\ Len(df) = 1
                       /\ df[1]["id"] = Num(1)
                       /\ m = [raw_records |-> 3, invalid_price |-> 1,
                               invalid_category |-> 0, invalid_rating |-> 0,
                               duplicates_removed |-> 1, clean_records |-> 1]

C7_Witness ==
    /\ Returned("p1")
    /\ raw_data["p1"] = ExampleBatch
    /\ Len(clean_df["p1"]) = 1

\* C8: a rejected record is counted once, by the first rule that rejects it
\* in the order price, category, rating, duplicate; so the counters and the
\* clean count add up to the raw count.
C8_CountedOnceAtFirstRule ==
    \A p \in Procs :
        Returned(p) =>
            LET data == raw_data[p]
                m == result[p].quality_metrics
                pos == 1..Len(data)
            IN  /\ m.raw_records = Len(data)
                /\ m.invalid_price = Cardinality({ i \in pos : BadPrice(data[i]) })
                /\ m.invalid_category =
                       Cardinality({ i \in pos : ~BadPrice(data[i]) /\ BadCategory(data[i]) })
                /\ m.invalid_rating =
                       Cardinality({ i \in pos : /\ ~BadPrice(data[i])
                                                 /\ ~BadCategory(data[i])
                                                 /\ BadRating(data[i]) })
                /\ m.duplicates_removed =
                       Cardinality({ i \in pos :
                           /\ PassesRules(data[i])
                           /\ \E j \in 1..(i - 1) :
                                  PassesRules(data[j]) /\ IdOf(data[j]) = IdOf(data[i]) })
                /\ m.clean_records = Len(clean_df[p])
                /\ m.raw_records = m.invalid_price + m.invalid_category
                       + m.invalid_rating + m.duplicates_removed + m.clean_records

C8_Witness ==
    /\ Returned("p1")
    /\ \E i \in 1..Len(raw_data["p1"]) :
           /\ BadPrice(raw_data["p1"][i])
           /\ BadCategory(raw_data["p1"][i])
           /\ BadRating(raw_data["p1"][i])
    /\ result["p1"].quality_metrics.invalid_price = 1
    /\ result["p1"].quality_metrics.invalid_category = 1
    /\ result["p1"].quality_metrics.invalid_rating = 0

(***************************************************************************)
(* Properties of the idempotency guard and of the store writer, checked    *)
(* under Spec.                                                             *)
(***************************************************************************)
RowOfPeriod(rows, day) ==
    \E i \in 1..Len(rows) : rows[i]["fetch_date"] = strftime(day)

\* C9: the guard answers false when the table is absent, true when a stored
\* row has the period as its fetch_date, false when the table is there
\* without such a row; and it leaves the store as it found it.
C9_GuardAnswer ==
    [][ \A p \in Procs :
          StoreGuard(p) =>
            /\ ~table_exists => guard_result'[p] = FALSE
            /\ (table_exists /\ RowOfPeriod(table_rows, today)) =>
                   guard_result'[p] = TRUE
            /\ (table_exists /\ ~RowOfPeriod(table_rows, today)) =>
                   guard_result'[p] = FALSE
            /\ table_exists' = table_exists
            /\ table_rows' = table_rows ]_vars

\* The table is there, its rows are of another period: the guard said false.
C9_Witness ==
    /\ pc["p1"] = "append"
    /\ table_exists
    /\ table_rows # <<>>
    /\ guard_today["p1"] = 2
    /\ guard_result["p1"] = FALSE

\* Two calls of store_data, one after the other, that both returned and
\* whose guards read the same period.
SamePeriodPair(i) ==
    /\ i \in 2..Len(calls)
    /\ calls[i].period = calls[i - 1].period
    /\ ~calls[i].raised
    /\ ~calls[i - 1].raised

\* The run that made call i has ended.
RunEnded(i) ==
    calls[i].run = runs /\ pc[calls[i].proc] \in {"done", "failed"}

SecondCallSkipped(i) ==
    /\ calls[i].written = 0
    /\ calls[i].before = calls[i - 1].after
    /\ calls[i].after = calls[i - 1].after
    /\ RunEnded(i) => /\ pc[calls[i].proc] = "done"
                      /\ result[calls[i].proc].status = "SKIPPED"
                      /\ result[calls[i].proc].records_stored = 0

\* C10 (as claimed): the second of two calls for the same period writes
\* nothing, leaves the store as the first left it, and its run ends SKIPPED.
C10_SecondCallWritesNothing ==
    \A i \in 1..Len(calls) : SamePeriodPair(i) => SecondCallSkipped(i)

\* The first call appended a row stamped with the period of the two calls.
FirstCallAppendedPeriodRow(i) ==
    \E k \in (Len(calls[i - 1].before.rows) + 1)..Len(calls[i - 1].after.rows) :
        calls[i - 1].after.rows[k]["fetch_date"] = strftime(calls[i].period)

\* C10 (amended): the second call writes nothing, leaves the store as the
\* first left it and ends its run SKIPPED when the first call appended at
\* least one row stamped with that period.
C10_SecondCallSkipsAfterAppend ==
    \A i \in 1..Len(calls) :
        (SamePeriodPair(i) /\ FirstCallAppendedPeriodRow(i)) => SecondCallSkipped(i)

C10_Witness ==
    /\ Len(calls) = 2
    /\ SamePeriodPair(2)
    /\ FirstCallAppendedPeriodRow(2)
    /\ calls[1].written = 2
    /\ RunEnded(2)
    /\ result["p1"].status = "SKIPPED"
    /\ Len(clean_df["p1"]) = 1

(***************************************************************************)
(* The store under the pipeline.                                           *)
(***************************************************************************)
IsPrefix(s, t) == Len(s) <= Len(t) /\ SubSeq(t, 1, Len(s)) = s

\* C11: the store is append-only under the pipeline: whatever a step of any
\* run does, with any outcome, every row the store held before the step is
\* there unchanged after it, at the same place, and a table that exists
\* goes on existing; no row is updated or deleted.
C11_AppendOnly ==
    [][IsPrefix(table_rows, table_rows') /\ (table_exists => table_exists')]_vars

\* a run has appended rows to a store that already held rows, and has ended
C11_Witness ==
    \E i \in 1..Len(calls) :
        /\ calls[i].before.rows # <<>>
        /\ calls[i].written > 0
        /\ Len(calls[i].after.rows) > Len(calls[i].before.rows)
        /\ IsPrefix(calls[i].after.rows, table_rows)
        /\ pc[calls[i].proc] = "done"

(***************************************************************************)
(* What the caller of run_pipeline gets.                                   *)
(***************************************************************************)
Ended(p) == pc[p] \in {"done", "failed"}

\* C12 (as claimed): every call of run_pipeline that has ended gave its
\* caller a result record; when a stage failed, that record has status
\* FAILED and an error_message.
C12_CallerObtainsResult ==
    \A p \in Procs :
        Ended(p) =>
            /\ outcome[p].kind = "returned"
            /\ (exc[p] # NoExc =>
                    /\ outcome[p].result.status = "FAILED"
                    /\ outcome[p].result.error_message # None)

EndBanners(p) ==
    Cardinality({ i \in 1..Len(log[p]) : log[p][i][1] = "PIPELINE FINISHED" })
LastLogged(p, n) == SubSeq(log[p], Len(log[p]) - n + 1, Len(log[p]))

\* C13: when a stage raises (the fetcher included), the run sets status
\* FAILED and error_message to the text of the exception and logs the
\* failure (the state of the run in its finally clause), then logs the end
\* banner, and only then does the same exception reach the caller: no call
\* that met an exception ends by returning.  On every path the end banner
\* is logged exactly once, as the last thing logged, after the status is
\* final, and not before the run is through its finally clause.
C13_FinalizeLogThenReraise ==
    \A p \in Procs :
        /\ exc[p] # NoExc => pc[p] \in {"raised", "finally", "failed"}
        /\ (pc[p] = "finally" /\ exc[p] # NoExc) =>
                /\ result[p].status = "FAILED"
                /\ result[p].error_message = Msg(exc[p].msg)
                /\ LastLogged(p, 1) = <<PipelineFailed(exc[p].msg)>>
                /\ outcome[p] = NoOutcome
        /\ pc[p] = "failed" =>
                /\ exc[p] # NoExc
                /\ result[p].status = "FAILED"
                /\ result[p].error_message = Msg(exc[p].msg)
                /\ LastLogged(p, 2) = <<PipelineFailed(exc[p].msg), EndBanner("FAILED")>>
                /\ outcome[p] = Raises(exc[p])
        /\ outcome[p].kind = "raised" => pc[p] = "failed"
        /\ pc[p] = "done" =>
                /\ exc[p] = NoExc
                /\ result[p].status \in {"SUCCESS", "SKIPPED"}
                /\ outcome[p] = Returns(result[p])
        /\ Ended(p) =>
                /\ EndBanners(p) = 1
                /\ LastLogged(p, 1) = <<EndBanner(result[p].status)>>
        /\ ~Ended(p) => EndBanners(p) = 0

\* a run whose fetch was exhausted has ended: the exception reached the
\* caller after the record and the log were complete
C13_Witness ==
    /\ pc["p1"] = "failed"
    /\ exc["p1"] = FetchExhausted(MAX_RETRIES)
    /\ outcome["p1"] = Raises(FetchExhausted(MAX_RETRIES))
    /\ log["p1"] = <<StartBanner, PipelineFailed(FetchExhausted(MAX_RETRIES).msg),
                     EndBanner("FAILED")>>

(***************************************************************************)
(* The stages of a run.                                                    *)
(***************************************************************************)
Entered(p, stage) == \E i \in 1..Len(stages[p]) : stages[p][i] = stage

\* The run has validated a batch that is empty or whose first record lacks
\* a required field: validate_schema returned false.
ValidateReturnedFalse(p) ==
    /\ Entered(p, "validate")
    /\ \/ raw_data[p] = <<>>
       \/ \E path \in RequiredPaths : ~HasPath(raw_data[p][1], path)

FailedWithMessage(p, text) ==
    /\ pc[p] = "failed"
    /\ result[p].status = "FAILED"
    /\ result[p].error_message = Msg(text)

SkippedCleanAndStore(p) ==
    /\ stages[p] = <<"fetch", "validate">>
    /\ clean_df[p] = <<>>
    /\ result[p].quality_metrics = <<>>
    /\ result[p].records_stored = 0
    /\ ~conn_open[p]
    /\ \A i \in 1..Len(calls) : ~(calls[i].proc = p /\ calls[i].run = runs)

\* C14 (as claimed): when validate returns false the run ends FAILED with
\* error_message "schema validation failed", and neither the cleaning nor
\* the storing stage runs.
C14_SchemaFailureMessageAsClaimed ==
    \A p \in Procs :
        (ValidateReturnedFalse(p) /\ Ended(p)) =>
            /\ FailedWithMessage(p, "schema validation failed")
            /\ SkippedCleanAndStore(p)

\* C14 (amended): when validate returns false the run ends FAILED with
\* error_message "Schema validation failed - API structure may have
\* changed", and at no point after the validation does the cleaning or the
\* storing stage run.
C14_SchemaFailureStopsRun ==
    \A p \in Procs :
        ValidateReturnedFalse(p) =>
            /\ pc[p] \in {"raised", "finally", "failed"}
            /\ exc[p] = SchemaError
            /\ SkippedCleanAndStore(p)
            /\ Ended(p) =>
                 FailedWithMessage(p, "Schema validation failed - API structure may have changed")

\* a run whose batch has a first record without a price has ended
C14_Witness ==
    /\ pc["p1"] = "failed"
    /\ ValidateReturnedFalse("p1")
    /\ raw_data["p1"] = <<Without(Base1, "price"), Base2>>
    /\ outcome["p1"] = Raises(SchemaError)

\* The call of store_data that the current run of p made.
StoreCallOf(p, i) ==
    /\ i \in 1..Len(calls)
    /\ calls[i].proc = p
    /\ calls[i].run = runs

RowsAppended(i) == Len(calls[i].after.rows) - Len(calls[i].before.rows)

\* C15: when store_data has returned without raising, the status of the
\* run is SUCCESS exactly when the count written is > 0 and SKIPPED
\* otherwise; on SUCCESS records_stored is the number of clean records, and
\* the call put exactly those rows after the rows the store held.
C15_StatusFromCount ==
    \A p \in Procs : \A i \in 1..Len(calls) :
        (StoreCallOf(p, i) /\ ~calls[i].raised /\ pc[p] \in {"finally", "done"}) =>
            /\ result[p].status = "SUCCESS" <=> calls[i].written > 0
            /\ result[p].status = "SKIPPED" <=> calls[i].written <= 0
            /\ result[p].records_stored = calls[i].written
            /\ result[p].status = "SUCCESS" =>
                 /\ result[p].records_stored = Len(clean_df[p])
                 /\ RowsAppended(i) = result[p].records_stored
                 /\ calls[i].after.rows = calls[i].before.rows \o clean_df[p]

\* a run that stored two clean records has ended SUCCESS after an earlier
\* run was SKIPPED or stored nothing
C15_Witness ==
    /\ pc["p1"] = "done"
    /\ result["p1"].status = "SUCCESS"
    /\ result["p1"].records_stored = 2
    /\ Len(calls) = 2
    /\ StoreCallOf("p1", 2)
    /\ calls[1].written = 0
    /\ ~calls[1].raised

\* The call of store_data of the current run of p, its guard not having
\* reported the period ingested, ended without the whole batch appended:
\* it raised, or fewer rows than the batch landed.
WriteFailed(p, i) ==
    /\ StoreCallOf(p, i)
    /\ ~guard_result[p]
    /\ \/ calls[i].raised
       \/ calls[i].after.rows # calls[i].before.rows \o clean_df[p]

\* C16: no partial commits: when the append fails part of the way, the
\* record of the run has status FAILED and records_stored = 0 from the
\* failure on, whether or not rows of the batch landed in the store; the run
\* ends failed, with the failure as error_message, never as SUCCESS or
\* SKIPPED and never with the count of the rows that landed.
C16_FailedWriteCreditsNothing ==
    \A p \in Procs : \A i \in 1..Len(calls) :
        WriteFailed(p, i) =>
            /\ calls[i].raised
            /\ calls[i].written = 0
            /\ pc[p] \in {"raised", "finally", "failed"}
            /\ result[p].status = "FAILED"
            /\ result[p].records_stored = 0
            /\ pc[p] \in {"finally", "failed"} =>
                 result[p].error_message = Msg(StorageFailure.msg)

\* a run has ended FAILED with nothing credited after one row of its batch
\* of two landed in the store
C16_Witness ==
    /\ pc["p1"] = "failed"
    /\ Len(clean_df["p1"]) = 2
    /\ \E i \in 1..Len(calls) :
         /\ WriteFailed("p1", i)
         /\ RowsAppended(i) = 1
         /\ IsPrefix(calls[i].after.rows, table_rows)
    /\ result["p1"].status = "FAILED"
    /\ result["p1"].records_stored = 0

\* C17: the connection store_data opens is open only while the call is at
\* its guard or its append; it is closed once the call has ended, whichever
\* way it ended (the guard reported the period ingested, the append
\* succeeded, the guard raised, the append raised), and no run ends with
\* its connection open.
C17_ConnectionClosedOnEveryExit ==
    \A p \in Procs :
        /\ conn_open[p] => pc[p] \in {"guard", "append"}
        /\ pc[p] \in {"guard", "append"} => conn_open[p]
        /\ \A i \in 1..Len(calls) : StoreCallOf(p, i) => ~conn_open[p]

\* a first call that appended and a second that raised have both ended,
\* and the connection is closed
C17_Witness ==
    /\ Len(calls) = 2
    /\ ~calls[1].raised /\ calls[1].written > 0
    /\ calls[2].raised
    /\ pc["p1"] = "raised"
    /\ ~conn_open["p1"]

(***************************************************************************)
(* Two invocations against the same store.                                 *)
(***************************************************************************)
\* Rows i+1..j of the store's table are the frame df.
HoldsBatchAt(rows, i, df) ==
    /\ i + Len(df) <= Len(rows)
    /\ SubSeq(rows, i + 1, i + Len(df)) = df

Stamped(df, period) ==
    \A k \in 1..Len(df) : df[k]["fetch_date"] = strftime(period)

\* C18: the guard does not serialize concurrent invocations: a call of
\* store_data whose guard answered "not ingested" and that did not raise
\* has appended its whole batch after whatever the store held at that
\* step, rows the other invocation appended for the same period after the
\* guard's answer included, and its run reports SUCCESS with the batch's
\* count; the store then holds the batches of both.
C18_GuardDoesNotSerialize ==
    \A i \in 1..Len(calls) :
        LET p == calls[i].proc
        IN  (~calls[i].raised /\ ~guard_result[p]) =>
                /\ calls[i].written = Len(clean_df[p])
                /\ calls[i].after.rows = calls[i].before.rows \o clean_df[p]
                /\ HoldsBatchAt(table_rows, Len(calls[i].before.rows), clean_df[p])
                /\ (Ended(p) /\ clean_df[p] # <<>>) =>
                     /\ result[p].status = "SUCCESS"
                     /\ result[p].records_stored = Len(clean_df[p])

\* both invocations asked the guard for the same period before either
\* appended, both appended a batch stamped with that period, and both have
\* ended SUCCESS: the store holds the two batches of the period
C18_Witness ==
    /\ Len(calls) = 2
    /\ calls[1].proc # calls[2].proc
    /\ calls[1].period = calls[2].period
    /\ \A i \in 1..2 :
         /\ ~guard_result[calls[i].proc]
         /\ calls[i].written > 0
         /\ Stamped(clean_df[calls[i].proc], calls[i].period)
         /\ pc[calls[i].proc] = "done"
         /\ outcome[calls[i].proc].kind = "returned"
         /\ outcome[calls[i].proc].result.status = "SUCCESS"
    /\ table_rows = clean_df[calls[1].proc] \o clean_df[calls[2].proc]

(***************************************************************************)
(* The cleaning stage after a validation that passed.                      *)
(***************************************************************************)
\* C19 (as claimed): once validation has passed and the cleaning stage has
\* run, whatever the batch holds, the stage has returned a clean set and
\* metrics and the run is at the storing stage; no exception is pending.
C19_CleanNeverAborts ==
    \A p \in Procs :
        Entered(p, "clean") =>
            /\ pc[p] = "store"
            /\ exc[p] = NoExc
            /\ result[p].quality_metrics # <<>>
            /\ result[p].quality_metrics.clean_records = Len(clean_df[p])

(***************************************************************************)
(* The result record.                                                      *)
(***************************************************************************)
\* The except clause of run_pipeline has caught the exception of a stage.
StageFailureCaught(p) == exc[p] # NoExc /\ pc[p] \in {"finally", "failed"}

\* C20: in the result record of a run, at every point of the run and at
\* its end, error_message is set exactly when the status is FAILED and the
\* failure of a stage has been caught, and it is then the text of that
\* exception; with status SUCCESS or SKIPPED it is None, and so it is from
\* the start of the run (status FAILED as initialised) until a failure is
\* caught, the moment an exception is on its way to the except clause
\* included.
C20_ErrorMessageIffFailed ==
    \A p \in Procs :
        result[p] # NoResult =>
            /\ result[p].error_message # None <=>
                    (result[p].status = "FAILED" /\ StageFailureCaught(p))
            /\ result[p].status \in {"SUCCESS", "SKIPPED"} =>
                    result[p].error_message = None
            /\ result[p].error_message # None =>
                    result[p].error_message = Msg(exc[p].msg)
            /\ StageFailureCaught(p) => result[p].status = "FAILED"
            /\ outcome[p].kind = "returned" =>
                    outcome[p].result.error_message = None

\* a run whose cleaning stage raised is in its finally clause, the message
\* recorded, after a first run that ended SUCCESS without one
C20_Witness ==
    /\ pc["p1"] = "finally"
    /\ runs = 2
    /\ exc["p1"] = ComparisonTypeError
    /\ result["p1"].status = "FAILED"
    /\ result["p1"].error_message = Msg(ComparisonTypeError.msg)
    /\ Len(calls) = 1 /\ calls[1].written > 0

(***************************************************************************)
(* Runs one after the other within a period.                               *)
(***************************************************************************)
\* The rows call i put into the store.
AppendedRows(i) ==
    SubSeq(calls[i].after.rows, Len(calls[i].before.rows) + 1, Len(calls[i].after.rows))

\* Call i, made within the period its run stamped its rows with, put at
\* least one row into the store.
AppendedForItsPeriod(i) ==
    /\ AppendedRows(i) # <<>>
    /\ Stamped(AppendedRows(i), calls[i].period)

\* C21: with runs one after the other: once a call made within a period has
\* appended at least one row stamped with that period, every later call in
\* the period appends nothing and leaves the store as it found it; so at
\* most one call per period appends rows of the period, and the store holds
\* the rows of at most one batch for it.
C21_OneBatchPerPeriod ==
    /\ \A i, j \in 1..Len(calls) :
         (i < j /\ calls[i].period = calls[j].period /\ AppendedForItsPeriod(i)) =>
             /\ calls[j].written = 0
             /\ AppendedRows(j) = <<>>
             /\ calls[j].after = calls[j].before
    /\ \A d \in 1..MaxDay :
         Cardinality({ i \in 1..Len(calls) :
                         calls[i].period = d /\ AppendedForItsPeriod(i) }) <= 1

\* on the second day a first run stored one row and a second run, with two
\* clean records of its own, has ended SKIPPED: the store holds the first
\* run's row only
C21_Witness ==
    /\ Len(calls) = 2
    /\ calls[1].period = 2 /\ calls[2].period = 2
    /\ AppendedForItsPeriod(1)
    /\ calls[1].written = 1
    /\ Len(clean_df["p1"]) = 2
    /\ Stamped(clean_df["p1"], 2)
    /\ pc["p1"] = "done"
    /\ result["p1"].status = "SKIPPED"
    /\ table_rows = AppendedRows(1)

(***************************************************************************)
(* The order of the stages.                                                *)
(***************************************************************************)
StageOrder == <<"fetch", "validate", "clean", "store">>

FetchFailed(p) ==
    /\ stages[p] = <<"fetch">>
    /\ exc[p] \in {FetchExhausted(MAX_RETRIES), MalformedResponse}

\* The store as the last call of store_data that ended left it.
StoreAsLastLeft ==
    Store = IF calls = <<>> THEN [exists |-> FALSE, rows |-> <<>>]
            ELSE calls[Len(calls)].after

\* C22: the stages a run has entered are always an initial part of fetch,
\* validate, clean, store (so each is entered in that order and at most
\* once), and the run is where that part says; when the fetch failed or
\* validate returned false, the run opens no store connection, makes no
\* call of store_data, leaves the store as the call before left it, and
\* records_stored stays 0.
C22_FailFastStageOrder ==
    \A p \in Procs :
        /\ IsPrefix(stages[p], StageOrder)
        /\ pc[p] \in {"fetch", "sleep", "fetched"} => stages[p] = SubSeq(StageOrder, 1, 1)
        /\ pc[p] = "clean" => stages[p] = SubSeq(StageOrder, 1, 2)
        /\ pc[p] = "store" => stages[p] = SubSeq(StageOrder, 1, 3)
        /\ pc[p] \in {"guard", "append", "stored"} => stages[p] = StageOrder
        /\ (FetchFailed(p) \/ ValidateReturnedFalse(p)) =>
                /\ pc[p] \in {"raised", "finally", "failed"}
                /\ ~Entered(p, "clean") /\ ~Entered(p, "store")
                /\ ~conn_open[p]
                /\ \A i \in 1..Len(calls) : ~StoreCallOf(p, i)
                /\ StoreAsLastLeft
                /\ result[p].records_stored = 0

\* after a run that stored rows, a second run whose fetch was exhausted has
\* ended: the store is as the first run left it
C22_Witness ==
    /\ pc["p1"] = "failed"
    /\ runs = 2
    /\ FetchFailed("p1")
    /\ exc["p1"] = FetchExhausted(MAX_RETRIES)
    /\ Len(calls) = 1
    /\ calls[1].written = 2
    /\ table_rows = calls[1].after.rows
    /\ result["p1"].records_stored = 0

(***************************************************************************)
(* The fetcher's sleeps.                                                   *)
(***************************************************************************)
\* Attempt k of the current fetch failed in a way the fetcher retries: its
\* except clause returned to the loop body (lines 64-69).
RetriedFailure(p, k) ==
    /\ k \in 1..Len(responses[p])
    /\ \/ responses[p][k].kind \in TransportFailures
       \/ responses[p][k].kind = "malformed" /\ jsonErrorIsRequestException

\* The sleeps due so far: one for each retried failure of an attempt before
\* the last one allowed.
SleepsDue(p) ==
    Cardinality({ k \in 1..Len(responses[p]) :
                    RetriedFailure(p, k) /\ k < max_retries[p] })

\* C23: the fetcher sleeps only between attempts: each failed attempt k that
\* it retries is followed by exactly one sleep when k < max_retries and by
\* none when k = max_retries; a fetch that exhausted max_retries >= 1
\* attempts has slept exactly max_retries - 1 times, and nothing sleeps
\* after its last failure.
C23_SleepOnlyBetweenAttempts ==
    \A p \in Procs :
        pc[p] # "off" =>
            /\ sleeps[p] = SleepsDue(p) - (IF pc[p] = "sleep" THEN 1 ELSE 0)
            /\ pc[p] = "sleep" <=>
                    (/\ RetriedFailure(p, Len(responses[p]))
                     /\ Len(responses[p]) < max_retries[p]
                     /\ attempt[p] = Len(responses[p]))
            /\ (RetriedFailure(p, Len(responses[p]))
                    /\ Len(responses[p]) = max_retries[p]) =>
                    /\ pc[p] \in {"fetch", "raised"}
                    /\ ~ENABLED FetchSleep(p)
                    /\ sleeps[p] = max_retries[p] - 1
            /\ (pc[p] = "raised" /\ exc[p] = FetchExhausted(max_retries[p])
                    /\ max_retries[p] >= 1) =>
                    /\ sleeps[p] = max_retries[p] - 1
                    /\ requests[p] = max_retries[p]
                    /\ ~ENABLED FetchSleep(p)

\* a fetch allowed two attempts has failed twice and ended, after one sleep
C23_Witness ==
    /\ pc["p1"] = "raised"
    /\ max_retries["p1"] = 2
    /\ exc["p1"] = FetchExhausted(2)
    /\ Len(responses["p1"]) = 2
    /\ RetriedFailure("p1", 1) /\ RetriedFailure("p1", 2)
    /\ sleeps["p1"] = 1

(***************************************************************************)
(* The status SKIPPED.                                                     *)
(***************************************************************************)
\* C24 (as claimed): a run ends with status SKIPPED only when its guard
\* reported the period already ingested; a run whose guard reported it not
\* ingested, its clean batch empty or not, does not end SKIPPED.
C24_SkippedOnlyWhenGuardIngested ==
    \A p \in Procs :
        (pc[p] \in {"finally", "done"} /\ result[p].status = "SKIPPED") =>
            /\ Entered(p, "store")
            /\ guard_result[p]

(***************************************************************************)
(* The date of the rows and the date of the guard.                         *)
(***************************************************************************)
\* C25 (as claimed): every row a call of store_data appends carries as
\* fetch_date the period the guard of that call checked, wherever the clock
\* stood between the cleaning stage and the storing stage.
C25_RowsStampedWithGuardPeriod ==
    \A i \in 1..Len(calls) : Stamped(AppendedRows(i), calls[i].period)

(***************************************************************************)
(* Termination.                                                            *)
(***************************************************************************)
Running(p) == pc[p] \notin {"off", "idle", "done", "failed"}

TerminalStatus(p) ==
    /\ result[p].status \in {"SUCCESS", "SKIPPED", "FAILED"}
    /\ pc[p] = "done" <=> result[p].status \in {"SUCCESS", "SKIPPED"}
    /\ pc[p] = "failed" <=> result[p].status = "FAILED"

\* C26: every invocation of run_pipeline terminates, whatever the source
\* answers and whatever the store does: the fetch loop makes no more than
\* max_retries requests and is over when it has made them, every
\* invocation that has started reaches its end, at its end the record has
\* exactly one of the statuses SUCCESS, SKIPPED and FAILED, and nothing but
\* the start of a new invocation changes the record or the outcome of an
\* invocation that has ended.
C26_EveryRunTerminates ==
    /\ \A p \in Procs : Running(p) ~> Ended(p)
    /\ [](\A p \in Procs :
            /\ requests[p] <= max_retries[p]
            /\ attempt[p] <= max_retries[p] + 1
            /\ Ended(p) => TerminalStatus(p))
    /\ [][\A p \in Procs :
            Ended(p) =>
                \/ /\ pc'[p] = pc[p]
                   /\ result'[p] = result[p]
                   /\ outcome'[p] = outcome[p]
                \/ /\ pc'[p] = "fetch"
                   /\ runs' = runs + 1]_vars

\* a run that met two failures and then a batch has ended SUCCESS after a
\* first run that ended FAILED
C26_Witness ==
    /\ runs = 2
    /\ pc["p1"] = "done"
    /\ result["p1"].status = "SUCCESS"
    /\ Len(log["p1"]) >= 3
    /\ Len(calls) = 1
    /\ calls[1].run = 2

====
